---- MODULE Spec2Model ----
(***************************************************************************)
(* Model of memory_server/server.py: MemoryManager over a SQLite store     *)
(* with two tables, memories (primary key id) and links (no key).          *)
(*                                                                         *)
(* Tables are sequences of rows in rowid (insertion) order, which is the   *)
(* order an unindexed SELECT scans them in.  Text values are sequences of  *)
(* one-character strings so that LIKE and the query cleaning are computed  *)
(* character by character.  Python None / SQL NULL is the string None for  *)
(* string-valued fields and NullText for text-valued ones.                 *)
(***************************************************************************)
EXTENDS Integers, Sequences, FiniteSets, TLC

VARIABLES
  memories,   \* the memories table: sequence of rows
  links,      \* the links table: sequence of rows
  nextId,     \* number of ids handed out so far, plus one (uuid4 is fresh)
  now,        \* the wall clock, in days
  result,     \* what the most recent call returned or raised
  returned,   \* history: id -> number of recall calls that returned it
  pc,         \* the remember call in flight or abandoned (stepwise runs)
  scan,       \* the recall call in flight or ended (interleaved runs)
  disk        \* the committed tables: what the database file holds

vars == <<memories, links, nextId, now, result, returned, pc, scan, disk>>

----------------------------------------------------------------------------
(* Bounds of the model *)

MaxMem == 3        \* memories created in a graph run
MaxLife == 2       \* memories created in a lifecycle run
MaxRank == 6       \* memories created in a ranking run
MaxAccess == 3     \* no recall selects a row that has this access_count
MaxRankAccess == 2 \* the same, in a ranking run
MaxTime == 1       \* clock ticks in a run
MaxTtl == 1        \* largest ttl_days passed to consolidate
MaxCascade == 2    \* memories created in a cascade run
MaxCascadeAccess == 2 \* no recall selects a row that has this access_count, there
MaxLinkAccess == 1  \* the same, in a link run

(* Program constants *)

LongTermImportance == 5   \* importance >= 5.0
PromoteCount == 3         \* new_count >= 3
TopK == 5                 \* sorted_results[:5]
LikeLimit == 20           \* limit=20
SessionBonus == 10        \* score += 10
LatestBonus == 5          \* score += 5
SummaryImportance == 5    \* importance=5.0 in summarize_session

None == "None"
NullText == <<"NULL">>

----------------------------------------------------------------------------
(* Values *)

\* Python truthiness of an optional string argument.
Truthy(s) == s /= None /\ s /= ""

\* datetime.isoformat(): a fixed-width digit string; SQLite and Python
\* compare these strings character by character.
IsoFormat(t) == <<t \div 10, t % 10>>

RECURSIVE StrLess(_, _)
StrLess(a, b) ==
  IF b = <<>> THEN FALSE
  ELSE IF a = <<>> THEN TRUE
  ELSE IF Head(a) /= Head(b) THEN Head(a) < Head(b)
  ELSE StrLess(Tail(a), Tail(b))

\* str(uuid.uuid4()): an id no earlier call stored.
NewId(n) == ToString(n)

IssuedIds == {NewId(i) : i \in 1..(nextId - 1)}

\* An id that uuid4 never returns in the run.
GhostId == "ghost"

----------------------------------------------------------------------------
(* Table helpers: sqlite_utils insert / get / update, SQL DELETE *)

Ids(mems) == {mems[i].id : i \in 1..Len(mems)}

Has(mems, id) == id \in Ids(mems)

Get(mems, id) == mems[CHOOSE i \in 1..Len(mems) : mems[i].id = id]

\* memories and links are the tables as the server's connection sees them,
\* disk what is committed.  sqlite_utils commits each insert and update,
\* and with it whatever the connection's open transaction holds; the
\* DELETEs of consolidate go through db.execute, which opens a transaction
\* and leaves it open.
Store(mems, lks) == [memories |-> mems, links |-> lks]

OpenTransaction == disk /= Store(memories, links)

\* db["memories"].insert(row)
InsertMemory(mems, row) == Append(mems, row)

\* db["links"].insert(row)
InsertLink(lks, l) == Append(lks, l)

\* db["memories"].update(pk, fields) first gets the row and raises
\* NotFoundError when there is none.
UpdateRaises(mems, id) == ~Has(mems, id)

\* db["memories"].update(relation_to, {"is_latest": 0})
FlipLatestBroad(mems, id) ==
  [i \in 1..Len(mems) |-> [mems[i] EXCEPT !.is_latest = 0]]

FlipLatest(mems, id) ==
  [i \in 1..Len(mems) |->
     IF mems[i].id = id THEN [mems[i] EXCEPT !.is_latest = 0] ELSE mems[i]]

----------------------------------------------------------------------------
(* remember *)

IsLongTermAtCreationStrict(importance) ==
  IF importance > LongTermImportance THEN 1 ELSE 0

\* is_long_term = 1 if importance >= 5.0 else 0
IsLongTermAtCreation(importance) ==
  IF importance >= LongTermImportance THEN 1 ELSE 0

NewRow(id, fact, citation, importance, session_id, memory_type, t) ==
  [id |-> id,
   content |-> fact,
   citation |-> citation,
   metadata |-> "{}",
   type |-> memory_type,
   session_id |-> session_id,
   access_count |-> 0,
   last_accessed |-> IsoFormat(t),
   importance |-> importance,
   is_long_term |-> IsLongTermAtCreation(importance),
   is_latest |-> 1,
   created_at |-> IsoFormat(t)]

NewLink(source, target, relation_type, t) ==
  [source_id |-> source,
   target_id |-> target,
   relation_type |-> relation_type,
   created_at |-> IsoFormat(t)]

\* if relation_to and relation_type:
HasRelation(relation_to, relation_type) ==
  Truthy(relation_to) /\ Truthy(relation_type)

\* The three writes of remember, each committed by sqlite_utils on its own.
RememberMemories(mems, id, fact, citation, importance, session_id, memory_type, t) ==
  InsertMemory(mems, NewRow(id, fact, citation, importance, session_id, memory_type, t))

RememberLinks(lks, id, relation_to, relation_type, t) ==
  IF HasRelation(relation_to, relation_type)
  THEN InsertLink(lks, NewLink(id, relation_to, relation_type, t))
  ELSE lks

IsAnyRelation(relation_to, relation_type) ==
  HasRelation(relation_to, relation_type)

\* if relation_to and relation_type: ... if relation_type == "updates":
IsUpdate(relation_to, relation_type) ==
  HasRelation(relation_to, relation_type) /\ relation_type = "updates"

RememberRaises(mems, relation_to, relation_type) ==
  IsUpdate(relation_to, relation_type) /\ UpdateRaises(mems, relation_to)

RememberFlip(mems, relation_to, relation_type) ==
  IF IsUpdate(relation_to, relation_type) /\ ~UpdateRaises(mems, relation_to)
  THEN FlipLatest(mems, relation_to)
  ELSE mems

Idle ==
  [step |-> "idle", id |-> None, relation_to |-> None, relation_type |-> None,
   stale |-> {}, t |-> 0, cutoff |-> 0, fact |-> <<>>, importance |-> 0,
   session_id |-> None]

\* The server is inside a call: it runs one call at a time.
Busy == pc.step \in {"insert", "link", "flip", "select", "delete"}

Returned(op, ok, id, rows, count) ==
  [op |-> op, ok |-> ok, id |-> id, rows |-> rows, count |-> count]

\* The history of the ids now stored.
Track(hist, mems) ==
  [id \in Ids(mems) |-> IF id \in DOMAIN hist THEN hist[id] ELSE 0]

Bump(hist, rows) ==
  [id \in DOMAIN hist |->
     hist[id] + Cardinality({i \in 1..Len(rows) : rows[i].id = id})]

\* MemoryManager.remember, run to its return or to the exception it raises.
Remember(fact, citation, importance, relation_to, relation_type, session_id, memory_type) ==
  LET id == NewId(nextId)
      m1 == RememberMemories(memories, id, fact, citation, importance,
                             session_id, memory_type, now)
  IN /\ ~Busy
     /\ memories' = RememberFlip(m1, relation_to, relation_type)
     /\ links' = RememberLinks(links, id, relation_to, relation_type, now)
     /\ nextId' = nextId + 1
     /\ result' = Returned("remember",
                           ~RememberRaises(m1, relation_to, relation_type),
                           id, <<>>, 0)
     /\ returned' = Track(returned, memories')
     /\ pc' = Idle
     /\ disk' = Store(memories', links')
     /\ UNCHANGED <<now, scan>>

----------------------------------------------------------------------------
(* remember, write by write.  sqlite_utils commits each insert and each    *)
(* update as it is made: remember opens no transaction around the three,   *)
(* so each is durable, and visible, before the next one starts.            *)

\* The call's arguments, the id it drew and its reading t of the clock.
InFlight(step, id, relation_to, relation_type, t, fact, importance, session_id) ==
  [Idle EXCEPT !.step = step, !.id = id, !.relation_to = relation_to,
               !.relation_type = relation_type, !.t = t, !.fact = fact,
               !.importance = importance, !.session_id = session_id]

\* memory_id = str(uuid.uuid4()); now = datetime.datetime.now().isoformat()
RememberStartStep(importance, relation_to, relation_type, session_id, fact) ==
  /\ ~Busy
  /\ pc' = InFlight("insert", NewId(nextId), relation_to, relation_type, now,
                    fact, importance, session_id)
  /\ UNCHANGED <<memories, links, nextId, now, result, returned, scan, disk>>

\* db["memories"].insert({...})
RememberInsertStep ==
  /\ pc.step = "insert"
  /\ memories' = RememberMemories(memories, pc.id, pc.fact, NullText,
                                  pc.importance, pc.session_id, "fact", pc.t)
  /\ nextId' = nextId + 1
  /\ returned' = Track(returned, memories')
  /\ pc' = [pc EXCEPT !.step = "link"]
  /\ disk' = Store(memories', links)
  /\ UNCHANGED <<links, now, result, scan>>

\* if relation_to and relation_type: db["links"].insert({...})
RememberLinkStep ==
  /\ pc.step = "link"
  /\ links' = RememberLinks(links, pc.id, pc.relation_to, pc.relation_type, pc.t)
  /\ pc' = [pc EXCEPT !.step = "flip"]
  /\ disk' = Store(memories, links')
  /\ UNCHANGED <<memories, nextId, now, result, returned, scan>>

\* if relation_type == "updates": db["memories"].update(...); return memory_id
RememberFlipStep ==
  /\ pc.step = "flip"
  /\ memories' = RememberFlip(memories, pc.relation_to, pc.relation_type)
  /\ result' = Returned("remember",
                        ~RememberRaises(memories, pc.relation_to, pc.relation_type),
                        pc.id, <<>>, 0)
  /\ pc' = [pc EXCEPT !.step = IF result'.ok THEN "returned" ELSE "raised",
                       !.t = 0]
  /\ disk' = Store(memories', links)
  /\ UNCHANGED <<links, nextId, now, returned, scan>>

\* The process dies inside remember, before one of its writes; what was
\* committed stays, an open transaction (consolidate's deletions) is rolled
\* back, and the process started next reads the committed tables.
Crash ==
  /\ pc.step \in {"insert", "link", "flip"}
  /\ pc' = [pc EXCEPT !.step = "crashed", !.t = 0]
  /\ result' = Returned("remember", FALSE, None, <<>>, 0)
  /\ memories' = disk.memories
  /\ links' = disk.links
  /\ UNCHANGED <<nextId, now, returned, scan, disk>>

----------------------------------------------------------------------------
(* recall: query cleaning and the search cascade *)

\* \w and \s of Python's re, on the model's alphabet.
IsWordChar(c) == c \in {"a", "b", "c", "A", "_"}
IsSpaceChar(c) == c = " "

\* SQLite's LIKE folds ASCII case.
Lower(c) == IF c = "A" THEN "a" ELSE c

RECURSIVE LStrip(_)
LStrip(s) == IF s /= <<>> /\ IsSpaceChar(Head(s)) THEN LStrip(Tail(s)) ELSE s

RECURSIVE RStrip(_)
RStrip(s) ==
  IF s /= <<>> /\ IsSpaceChar(s[Len(s)]) THEN RStrip(SubSeq(s, 1, Len(s) - 1)) ELSE s

\* re.sub(r"[^\w\s]", " ", query).strip()
CleanQuery(query) ==
  LStrip(RStrip([i \in 1..Len(query) |->
                   IF IsWordChar(query[i]) \/ IsSpaceChar(query[i])
                   THEN query[i] ELSE " "]))

\* f"%{clean_query.replace(' ', '%')}%"
LikeQuery(clean) ==
  <<"%">> \o [i \in 1..Len(clean) |-> IF clean[i] = " " THEN "%" ELSE clean[i]]
          \o <<"%">>

\* SQLite's LIKE: % matches any run of characters, _ any one character.
RECURSIVE Like(_, _)
Like(text, pat) ==
  IF pat = <<>> THEN text = <<>>
  ELSE IF Head(pat) = "%"
       THEN Like(text, Tail(pat)) \/ (text /= <<>> /\ Like(Tail(text), pat))
  ELSE IF text = <<>> THEN FALSE
  ELSE /\ (Head(pat) = "_" \/ Lower(Head(pat)) = Lower(Head(text)))
       /\ Like(Tail(text), Tail(pat))

\* A NULL column is LIKE nothing.
ColumnLike(value, pat) == value /= NullText /\ Like(value, pat)

\* The characters the FTS5 tokenizer (porter over unicode61) keeps in a
\* token: letters and digits; every other character, "_" too, separates.
IsTokenChar(c) == c \in {"a", "b", "c", "A"}

\* The tokens the tokenizer makes of a text, case folded (the porter stemmer
\* leaves the words of the model's alphabet as they are).
RECURSIVE Tokens(_, _)
Tokens(s, cur) ==
  IF s = <<>> THEN (IF cur = <<>> THEN {} ELSE {cur})
  ELSE IF IsTokenChar(Head(s)) THEN Tokens(Tail(s), Append(cur, Lower(Head(s))))
  ELSE (IF cur = <<>> THEN {} ELSE {cur}) \cup Tokens(Tail(s), <<>>)

ColumnTokens(value) == IF value = NullText THEN {} ELSE Tokens(value, <<>>)

Take(s, n) == SubSeq(s, 1, IF Len(s) < n THEN Len(s) ELSE n)

\* The rows of memories_fts.  enable_fts is called on the table as it is
\* created, without create_triggers, so the index is filled from an empty
\* table and no later insert reaches it.
FtsIndexRows(mems) == <<>>

\* db["memories"].search(clean_query, limit=20): the indexed rows holding
\* every token of the query; an empty query is an FTS5 syntax error, which
\* recall catches.
FtsSearch(mems, clean) ==
  LET toks == Tokens(clean, <<>>)
      hit(r) == toks \subseteq (ColumnTokens(r.content) \cup ColumnTokens(r.citation))
  IN IF toks = {} THEN <<>>
     ELSE Take(SelectSeq(FtsIndexRows(mems), hit), LikeLimit)

LikeLatestNoFlag(mems, pat) ==
  LET hit(r) == ColumnLike(r.content, pat) \/ ColumnLike(r.citation, pat)
  IN Take(SelectSeq(mems, hit), LikeLimit)

\* rows_where("(content LIKE ? OR citation LIKE ?) AND is_latest = 1", limit=20)
LikeLatest(mems, pat) ==
  LET hit(r) == (ColumnLike(r.content, pat) \/ ColumnLike(r.citation, pat))
                /\ r.is_latest = 1
  IN Take(SelectSeq(mems, hit), LikeLimit)

\* rows_where("content LIKE ? OR citation LIKE ?", limit=20)
LikeAll(mems, pat) ==
  LET hit(r) == ColumnLike(r.content, pat) \/ ColumnLike(r.citation, pat)
  IN Take(SelectSeq(mems, hit), LikeLimit)

\* The cascade: full-text search, then LIKE on latest rows, then LIKE on all.
Candidates(mems, query) ==
  LET clean == CleanQuery(query)
      fts == FtsSearch(mems, clean)
      pat == LikeQuery(clean)
      latest == LikeLatest(mems, pat)
  IN IF fts /= <<>> THEN fts
     ELSE IF latest /= <<>> THEN latest
     ELSE LikeAll(mems, pat)

\* De-duplicate by id, keeping the first row of each id.
RECURSIVE Dedupe(_, _)
Dedupe(rows, seen) ==
  IF rows = <<>> THEN <<>>
  ELSE IF Truthy(Head(rows).id) /\ Head(rows).id \notin seen
       THEN <<Head(rows)>> \o Dedupe(Tail(rows), seen \cup {Head(rows).id})
  ELSE Dedupe(Tail(rows), seen)

----------------------------------------------------------------------------
(* recall: ranking *)

SortKeyNoSession(x, session_id) ==
  (IF x.is_latest /= 0 THEN LatestBonus ELSE 0) + x.importance

SortKeyLeastAccessed(x, session_id) ==
  (IF Truthy(session_id) /\ x.session_id = session_id THEN SessionBonus ELSE 0)
  + (IF x.is_latest /= 0 THEN LatestBonus ELSE 0)
  + x.importance - x.access_count

\* sort_key
SortKey(x, session_id) ==
  (IF Truthy(session_id) /\ x.session_id = session_id THEN SessionBonus ELSE 0)
  + (IF x.is_latest /= 0 THEN LatestBonus ELSE 0)
  + x.importance

\* Where sorted() puts a row among rows already in order: behind every row
\* whose key is at least its own.
PlaceDesc(sorted, x, session_id) ==
  LET k == SortKey(x, session_id)
      n == Cardinality({i \in 1..Len(sorted) : SortKey(sorted[i], session_id) >= k})
  IN SubSeq(sorted, 1, n) \o <<x>> \o SubSeq(sorted, n + 1, Len(sorted))

RECURSIVE SortInto(_, _, _)
SortInto(sorted, rows, session_id) ==
  IF rows = <<>> THEN sorted
  ELSE SortInto(PlaceDesc(sorted, Head(rows), session_id), Tail(rows), session_id)

\* sorted(rows, key=sort_key, reverse=True): descending, and rows of equal
\* key keep their order.
SortedDesc(rows, session_id) == SortInto(<<>>, rows, session_id)

\* sorted_results[:5]: the rows recall works on, as read from the store.
Selected(mems, query, session_id) ==
  Take(SortedDesc(Dedupe(Candidates(mems, query), {}), session_id), TopK)

----------------------------------------------------------------------------
(* recall: the per-row update and the returned records *)

NewCount(row) == row.access_count + 1

\* is_long_term = 1 if new_count >= 3 else row.get("is_long_term", 0)
Promoted(row) == IF NewCount(row) >= PromoteCount THEN 1 ELSE row.is_long_term

ApplyAccessNoWhere(mems, row, t) ==
  [i \in 1..Len(mems) |->
     [mems[i] EXCEPT !.access_count = mems[i].access_count + 1,
                     !.last_accessed = IsoFormat(t),
                     !.is_long_term = IF mems[i].access_count + 1 >= PromoteCount
                                      THEN 1 ELSE mems[i].is_long_term]]

ApplyAccessRefreshAll(mems, row, t) ==
  [i \in 1..Len(mems) |->
     IF mems[i].id = row.id
     THEN [mems[i] EXCEPT !.access_count = NewCount(row),
                          !.last_accessed = IsoFormat(t),
                          !.is_long_term = Promoted(row)]
     ELSE [mems[i] EXCEPT !.last_accessed = IsoFormat(t)]]

\* db["memories"].update(mid, {...}) with the values computed from the row
\* as recall read it.
ApplyAccess(mems, row, t) ==
  [i \in 1..Len(mems) |->
     IF mems[i].id = row.id
     THEN [mems[i] EXCEPT !.access_count = NewCount(row),
                          !.last_accessed = IsoFormat(t),
                          !.is_long_term = Promoted(row)]
     ELSE mems[i]]

RECURSIVE ApplyAll(_, _, _)
ApplyAll(mems, rows, t) ==
  IF rows = <<>> THEN mems
  ELSE ApplyAll(ApplyAccess(mems, Head(rows), t), Tail(rows), t)

\* SELECT target_id, relation_type FROM links WHERE source_id = ?
OutgoingLinks(lks, id) ==
  LET out == SelectSeq(lks, LAMBDA l : l.source_id = id)
  IN [i \in 1..Len(out) |->
        [target_id |-> out[i].target_id, relation_type |-> out[i].relation_type]]

\* json.loads of the stored metadata: "{}" is the empty mapping.
JsonLoads(s) == IF s = "{}" THEN <<>> ELSE s

\* The record recall returns for a row.
Enriched(row, lks, t) ==
  [id |-> row.id,
   content |-> row.content,
   citation |-> row.citation,
   metadata |-> JsonLoads(row.metadata),
   type |-> row.type,
   session_id |-> row.session_id,
   access_count |-> NewCount(row),
   last_accessed |-> IsoFormat(t),
   importance |-> row.importance,
   is_long_term |-> Promoted(row),
   is_latest |-> row.is_latest,
   created_at |-> row.created_at,
   links |-> OutgoingLinks(lks, row.id)]

\* The loop over sorted_results[:5] and the return.
RecallRows(sel, cap) ==
     /\ ~Busy
     /\ \A i \in 1..Len(sel) : sel[i].access_count < cap
     /\ memories' = ApplyAll(memories, sel, now)
     /\ result' = Returned("recall", TRUE, None,
                           [i \in 1..Len(sel) |-> Enriched(sel[i], links, now)], 0)
     /\ returned' = (IF sel = <<>> THEN returned
                     ELSE Bump(Track(returned, memories'), result'.rows))
     /\ pc' = Idle
     /\ disk' = (IF sel = <<>> THEN disk ELSE Store(memories', links))
     /\ UNCHANGED <<links, nextId, now, scan>>

\* MemoryManager.recall
Recall(query, session_id, cap) ==
  RecallRows(Selected(memories, query, session_id), cap)

----------------------------------------------------------------------------
(* recall, statement by statement, called by clients that have their own    *)
(* connection to the database file.  Each SELECT of the cascade and each    *)
(* update of the loop is a statement of its own, and sqlite_utils commits   *)
(* each update as it is made, so the statements of the other connections    *)
(* run in between.  Such a connection reads the committed tables; while the *)
(* server's connection holds an open transaction, its writes wait for the   *)
(* lock and fail with "database is locked" when it is not released in time. *)

Callers == {"X", "Y"}

IdleScan ==
  [step |-> "idle", query |-> <<>>, session_id |-> None,
   rows |-> <<>>, done |-> <<>>, t |-> 0]

NoScan == [c \in Callers |-> IdleScan]

\* The de-duplication, the sort and the [:5] slice of the rows read.
SortedSlice(cands, session_id) ==
  Take(SortedDesc(Dedupe(cands, {}), session_id), TopK)

\* now = datetime.datetime.now().isoformat(); clean_query = ...
RecallStartStep(c, query, session_id) ==
  /\ scan[c].step \in {"idle", "raised"}
  /\ scan' = [scan EXCEPT ![c] = [IdleScan EXCEPT !.step = "latest",
                                                  !.query = query,
                                                  !.session_id = session_id,
                                                  !.t = now]]
  /\ UNCHANGED <<memories, links, nextId, now, result, returned, pc, disk>>

\* The full-text search, which finds nothing in the index that is never
\* filled, and then the LIKE on latest rows.  With rows found the loop is
\* next, else the LIKE on all rows.
RecallLatestStep(c, cap) ==
  LET clean == CleanQuery(scan[c].query)
      fts == FtsSearch(disk.memories, clean)
      cands == IF fts /= <<>> THEN fts
               ELSE LikeLatest(disk.memories, LikeQuery(clean))
      sel == SortedSlice(cands, scan[c].session_id)
  IN /\ scan[c].step = "latest"
     /\ \A i \in 1..Len(sel) : sel[i].access_count < cap
     /\ scan' = [scan EXCEPT ![c].step = IF cands /= <<>> THEN "update" ELSE "all",
                             ![c].rows = sel]
     /\ UNCHANGED <<memories, links, nextId, now, result, returned, pc, disk>>

\* if not results: the LIKE on all rows, as they are now.
RecallAllStep(c, cap) ==
  LET cands == LikeAll(disk.memories, LikeQuery(CleanQuery(scan[c].query)))
      sel == SortedSlice(cands, scan[c].session_id)
  IN /\ scan[c].step = "all"
     /\ \A i \in 1..Len(sel) : sel[i].access_count < cap
     /\ scan' = [scan EXCEPT ![c].step = "update", ![c].rows = sel]
     /\ UNCHANGED <<memories, links, nextId, now, result, returned, pc, disk>>

\* One turn of the loop, its write: db["memories"].update(mid, {...}) with
\* the values computed from the row as it was read.  The update fails with
\* "database is locked" against the server's open transaction, and with
\* NotFoundError when the row is gone; else it is committed.
RecallUpdateStep(c) ==
  /\ scan[c].step = "update"
  /\ scan[c].rows /= <<>>
  /\ LET row == Head(scan[c].rows)
     IN IF OpenTransaction \/ UpdateRaises(disk.memories, row.id)
        THEN /\ scan' = [scan EXCEPT ![c] = [IdleScan EXCEPT !.step = "raised"]]
             /\ result' = Returned("recall", FALSE, None, <<>>, 0)
             /\ UNCHANGED <<memories, disk>>
        ELSE /\ memories' = ApplyAccess(disk.memories, row, scan[c].t)
             /\ disk' = Store(memories', disk.links)
             /\ scan' = [scan EXCEPT ![c].step = "links"]
             /\ UNCHANGED result
  /\ UNCHANGED <<links, nextId, now, returned, pc>>

\* The same turn, its read: the SELECT of the row's links, as they are
\* committed by now, and final_results.append(row).
RecallLinksStep(c) ==
  /\ scan[c].step = "links"
  /\ scan' = [scan EXCEPT
                ![c].step = "update",
                ![c].rows = Tail(scan[c].rows),
                ![c].done = Append(scan[c].done,
                                   Enriched(Head(scan[c].rows), disk.links,
                                            scan[c].t))]
  /\ UNCHANGED <<memories, links, nextId, now, result, returned, pc, disk>>

\* return final_results
RecallReturnStep(c) ==
  /\ scan[c].step = "update"
  /\ scan[c].rows = <<>>
  /\ result' = Returned("recall", TRUE, None, scan[c].done, 0)
  /\ returned' = Bump(returned, scan[c].done)
  /\ scan' = [scan EXCEPT ![c] = IdleScan]
  /\ UNCHANGED <<memories, links, nextId, now, pc, disk>>

----------------------------------------------------------------------------
(* summarize_session *)

\* rows_where("session_id = ? AND type != 'summary'", [session_id]); a NULL
\* on either side of = selects nothing.
SessionMembersWithSummaries(mems, session_id) ==
  SelectSeq(mems, LAMBDA r : session_id /= None /\ r.session_id = session_id)

SessionMembers(mems, session_id) ==
  SelectSeq(mems, LAMBDA r : /\ session_id /= None
                             /\ r.session_id = session_id
                             /\ r.type /= "summary")

RECURSIVE DeriveLinks(_, _, _, _)
DeriveLinks(lks, mid, members, t) ==
  IF members = <<>> THEN lks
  ELSE DeriveLinks(InsertLink(lks, NewLink(mid, Head(members).id, "derives", t)),
                   mid, Tail(members), t)

\* MemoryManager.summarize_session.  The call reads the clock twice: at its
\* start, for the created_at of the links, and again inside remember, for
\* the summary row; the clock may have advanced in between.
SummarizeSession(session_id, summary_content) ==
  \E t \in now..(MaxTtl + MaxTime) :
    LET mid == NewId(nextId)
        m1 == RememberMemories(memories, mid, summary_content, NullText,
                               SummaryImportance, session_id, "summary", t)
    IN /\ ~Busy
       /\ now' = t
       /\ memories' = m1
       /\ links' = DeriveLinks(links, mid, SessionMembers(m1, session_id), now)
       /\ nextId' = nextId + 1
       /\ result' = Returned("summarize_session", TRUE, mid, <<>>, 0)
       /\ returned' = Track(returned, memories')
       /\ pc' = Idle
       /\ disk' = Store(memories', links')
       /\ UNCHANGED scan

----------------------------------------------------------------------------
(* consolidate *)

StaleIgnoringLongTerm(r, cutoff) ==
  /\ (StrLess(r.last_accessed, cutoff) \/ r.is_latest = 0)
  /\ StrLess(r.created_at, cutoff)

\* WHERE is_long_term = 0 AND (last_accessed < ? OR is_latest = 0)
\*   AND created_at < ?
Stale(r, cutoff) ==
  /\ r.is_long_term = 0
  /\ (StrLess(r.last_accessed, cutoff) \/ r.is_latest = 0)
  /\ StrLess(r.created_at, cutoff)

StaleIds(mems, cutoff) == {mems[i].id : i \in {j \in 1..Len(mems) : Stale(mems[j], cutoff)}}

DeleteLinksBySourceOnly(lks, ids) ==
  SelectSeq(lks, LAMBDA l : l.source_id \notin ids)

DeleteLinksByTargetOnly(lks, ids) ==
  SelectSeq(lks, LAMBDA l : l.target_id \notin ids)

\* DELETE FROM links WHERE source_id IN (...) OR target_id IN (...)
DeleteLinks(lks, ids) ==
  SelectSeq(lks, LAMBDA l : l.source_id \notin ids /\ l.target_id \notin ids)

\* DELETE FROM memories WHERE id IN (...)
DeleteMemories(mems, ids) == SelectSeq(mems, LAMBDA r : r.id \notin ids)

\* if stale_ids: the two DELETEs, run through db.execute and not committed,
\* and the count in the returned message.
Prune(stale) ==
  /\ ~Busy
  /\ links' = DeleteLinks(links, stale)
  /\ memories' = DeleteMemories(memories, stale)
  /\ result' = Returned("consolidate", TRUE, None, <<>>, Cardinality(stale))
  /\ pc' = Idle
  /\ UNCHANGED <<nextId, now, scan, disk, returned>>

\* MemoryManager.consolidate
Consolidate(ttl_days) == Prune(StaleIds(memories, IsoFormat(now - ttl_days)))

\* consolidate, statement by statement: now = datetime.datetime.now() and
\* the cutoff ...
ConsolidateStartStep(ttl_days) ==
  /\ ~Busy
  /\ pc' = [Idle EXCEPT !.step = "select", !.cutoff = now - ttl_days]
  /\ UNCHANGED <<memories, links, nextId, now, result, returned, scan, disk>>

\* ... the SELECT of the stale ids ...
ConsolidateSelectStep ==
  /\ pc.step = "select"
  /\ pc' = [pc EXCEPT !.step = "delete",
                      !.stale = StaleIds(memories, IsoFormat(pc.cutoff))]
  /\ UNCHANGED <<memories, links, nextId, now, result, returned, scan, disk>>

\* ... and, if stale_ids, the two DELETEs, which no other connection sees
\* before they are committed; then the return.
ConsolidateDeleteStep ==
  /\ pc.step = "delete"
  /\ links' = DeleteLinks(links, pc.stale)
  /\ memories' = DeleteMemories(memories, pc.stale)
  /\ result' = Returned("consolidate", TRUE, None, <<>>, Cardinality(pc.stale))
  /\ pc' = Idle
  /\ UNCHANGED <<nextId, now, returned, scan, disk>>

----------------------------------------------------------------------------
(* list_relationships *)

\* SELECT * FROM links WHERE source_id = ? OR target_id = ?
ListRelationships(memory_id) ==
  /\ ~Busy
  /\ result' = Returned("list_relationships", TRUE, None,
                        SelectSeq(links, LAMBDA l : l.source_id = memory_id
                                                    \/ l.target_id = memory_id), 0)
  /\ pc' = Idle
  /\ UNCHANGED <<memories, links, nextId, now, returned, scan, disk>>

----------------------------------------------------------------------------
(* The end of the process *)

\* The server process ends between two calls and is started again: the
\* transaction that consolidate left open is rolled back, and the new
\* connection sees the committed tables.  (With no transaction open the
\* tables stay as they are.)
Exit ==
  /\ ~Busy
  /\ OpenTransaction
  /\ memories' = disk.memories
  /\ links' = disk.links
  /\ result' = Returned("exit", TRUE, None, <<>>, 0)
  /\ pc' = Idle
  /\ UNCHANGED <<nextId, now, returned, scan, disk>>

----------------------------------------------------------------------------
(* The clock *)

\* The clock advances, between calls and while a call is running: each call
\* reads it once, as it starts.
Tick ==
  /\ now < MaxTtl + MaxTime
  /\ now' = now + 1
  /\ UNCHANGED <<memories, links, nextId, result, returned, pc, scan, disk>>

----------------------------------------------------------------------------------------------------------------------------------------
(* Calls: an operation with its arguments drawn from given sets *)

Abc == <<"a", "b", "c">>

Init ==
  /\ memories = <<>>
  /\ links = <<>>
  /\ nextId = 1
  /\ now = MaxTtl
  /\ result = Returned("init", TRUE, None, <<>>, 0)
  /\ returned = <<>>
  /\ pc = Idle
  /\ scan = NoScan
  /\ disk = Store(memories, links)

RememberCalls(cap, importances, targets, types, sessions) ==
  /\ nextId <= cap
  /\ \E importance \in importances, relation_to \in targets,
        relation_type \in types, session_id \in sessions :
          Remember(Abc, NullText, importance, relation_to, relation_type,
                   session_id, "fact")

RecallCalls(queries, sessions, cap) ==
  \E query \in queries, session_id \in sessions : Recall(query, session_id, cap)

SummarizeCalls(cap, sessions) ==
  /\ nextId <= cap
  /\ \E session_id \in sessions : SummarizeSession(session_id, Abc)

ConsolidateCalls == \E ttl_days \in 0..MaxTtl : Consolidate(ttl_days)

ListCalls == ListRelationships(NewId(1))

----------------------------------------------------------------------------
(* Lifecycle runs: promotion by importance and by access, and eviction *)

Next ==
  \/ RememberCalls(MaxLife, {1, 5}, IssuedIds \cup {None}, {None, "updates"}, {"s1"})
  \/ RecallCalls({Abc}, {None}, MaxAccess)
  \/ SummarizeCalls(MaxLife, {"s1"})
  \/ ConsolidateCalls
  \/ Exit
  \/ Tick

Spec == Init /\ [][Next]_vars

(* Graph runs: relations between memories, summaries, and the cascade *)

NextGraph ==
  \/ RememberCalls(MaxMem, {1}, IssuedIds \cup {None, GhostId},
                   {None, "updates", "extends"}, {"s1"})
  \/ SummarizeCalls(MaxMem, {"s1"})
  \/ ConsolidateCalls
  \/ Exit
  \/ Tick

SpecGraph == Init /\ [][NextGraph]_vars

(* Session runs: memories of two sessions and their summaries *)

NextSession ==
  \/ RememberCalls(MaxMem, {1}, {None}, {None}, {"s1", "s2"})
  \/ SummarizeCalls(MaxMem, {"s1", "s2"})
  \/ ConsolidateCalls
  \/ Exit
  \/ Tick

SpecSession == Init /\ [][NextSession]_vars

(* Ranking runs: recall on a store that remember calls have filled, with  *)
(* more candidates than recall returns                                    *)

RankProfiles == {<<1, None>>, <<1, "s1">>, <<11, None>>}

\* The store after remember has been called once with each of the given
\* (importance, session_id) pairs, in order.
RECURSIVE Remembered(_, _)
Remembered(profiles, t) ==
  IF profiles = <<>> THEN <<>>
  ELSE LET n == Len(profiles)
           p == profiles[n]
       IN RememberMemories(Remembered(SubSeq(profiles, 1, n - 1), t),
                           NewId(n), Abc, NullText, p[1], p[2], "fact", t)

InitRank ==
  \E n \in 0..MaxRank :
    \E profiles \in [1..n -> RankProfiles] :
      /\ memories = Remembered(profiles, MaxTtl)
      /\ links = <<>>
      /\ nextId = n + 1
      /\ now = MaxTtl + MaxTime
      /\ result = IF n = 0 THEN Returned("init", TRUE, None, <<>>, 0)
                         ELSE Returned("remember", TRUE, NewId(n), <<>>, 0)
      /\ returned = Track(<<>>, memories)
      /\ pc = Idle
      /\ scan = NoScan
      /\ disk = Store(memories, links)

NextRank == RecallCalls({Abc}, {None, "s1"}, MaxRankAccess)

SpecRank == InitRank /\ [][NextRank]_vars

(* Crash runs: remember write by write, and the process dying in between *)

RememberStepCalls ==
  /\ nextId <= MaxMem
  /\ \E relation_to \in IssuedIds \cup {None},
        relation_type \in {None, "updates", "extends"} :
          RememberStartStep(1, relation_to, relation_type, None, Abc)

NextCrash ==
  \/ RememberStepCalls
  \/ RememberInsertStep
  \/ RememberLinkStep
  \/ RememberFlipStep
  \/ Crash
  \/ ConsolidateCalls
  \/ Exit
  \/ Tick

SpecCrash == Init /\ [][NextCrash]_vars

(* Cascade runs: memories of different content and citation, some of them  *)
(* superseded, recalled with queries that match by case folding, across    *)
(* punctuation, in part, or not at all                                     *)

\* (fact, citation) pairs passed to remember: "abc", the empty text, and
\* "Ab" cited as "c".
FactProfiles == {<<Abc, NullText>>, <<<<>>, NullText>>, <<<<"A", "b">>, <<"c">>>>}

\* "abc b": two words, the first of which is the content "abc".
AbcB == <<"a", "b", "c", " ", "b">>

\* Queries passed to recall: "abc", "ab", "a!c", "abc b", "c" and "".
Queries == {Abc, <<"a", "b">>, <<"a", "!", "c">>, AbcB, <<"c">>, <<>>}

RememberFactCalls(cap, profiles, targets, types) ==
  /\ nextId <= cap
  /\ \E p \in profiles, relation_to \in targets, relation_type \in types :
       Remember(p[1], p[2], 1, relation_to, relation_type, None, "fact")

NextCascade ==
  \/ RememberFactCalls(MaxCascade, FactProfiles, IssuedIds \cup {None}, {"updates"})
  \/ RecallCalls(Queries, {None}, MaxCascadeAccess)

SpecCascade == Init /\ [][NextCascade]_vars

(* Supersession runs: every operation, and remember with each relation    *)
(* type, with one of relation_to and relation_type, with both and with     *)
(* neither                                                                 *)

RelationTypes == {None, "updates", "extends", "derives"}

NextLatest ==
  \/ RememberCalls(MaxLife, {1}, IssuedIds \cup {None}, RelationTypes, {"s1"})
  \/ RecallCalls({Abc}, {None}, MaxAccess)
  \/ SummarizeCalls(MaxLife, {"s1"})
  \/ ConsolidateCalls
  \/ Exit
  \/ Tick

SpecLatest == Init /\ [][NextLatest]_vars

(* Link runs: every operation that reads or writes the links table, on     *)
(* chains of memories, each superseding or extending the one before it;     *)
(* sessions are summarized early in the run                                 *)

\* The id that the latest remember or summarize_session call returned.
LastIssued == IssuedIds \cap {NewId(nextId - 1)}

NextLinks ==
  \/ RememberCalls(MaxMem, {1}, LastIssued \cup {None}, {None, "updates", "extends"},
                   {"s1"})
  \/ RecallCalls({Abc}, {None}, MaxLinkAccess)
  \/ SummarizeCalls(MaxLife, {"s1"})
  \/ ConsolidateCalls
  \/ Exit
  \/ ListCalls
  \/ Tick

SpecLinks == Init /\ [][NextLinks]_vars

(* Interleaved runs: the server's remember, and the recall calls of two     *)
(* clients on connections of their own, statement by statement              *)

\* The first memory remembered is "abc"; the later ones are "b", which no
\* recall("abc") selects.
InterleaveFact(n) == IF n = 1 THEN Abc ELSE <<"b">>

RememberInterleaveCalls ==
  /\ nextId <= MaxLife
  /\ \E relation_to \in IssuedIds \cup {None} :
       RememberStartStep(1, relation_to, "updates", None, InterleaveFact(nextId))

RecallInterleaveCalls(callers) ==
  \E c \in callers :
    \/ RecallStartStep(c, Abc, None)
    \/ RecallLatestStep(c, MaxAccess)
    \/ RecallAllStep(c, MaxAccess)
    \/ RecallUpdateStep(c)
    \/ RecallLinksStep(c)
    \/ RecallReturnStep(c)

NextInterleave ==
  \/ RememberInterleaveCalls
  \/ RememberInsertStep
  \/ RememberLinkStep
  \/ RememberFlipStep
  \/ RecallInterleaveCalls(Callers)
  \/ Tick

SpecInterleave == Init /\ [][NextInterleave]_vars

(* Sweep runs: the server's remember and consolidate, statement by          *)
(* statement, the end of its process, and the recall of one client on a     *)
(* connection of its own                                                    *)

ConsolidateStartCalls == \E ttl_days \in 0..MaxTtl : ConsolidateStartStep(ttl_days)

NextSweep ==
  \/ RememberInterleaveCalls
  \/ RememberInsertStep
  \/ RememberLinkStep
  \/ RememberFlipStep
  \/ RecallInterleaveCalls({"X"})
  \/ ConsolidateStartCalls
  \/ ConsolidateSelectStep
  \/ ConsolidateDeleteStep
  \/ Exit
  \/ Tick

SpecSweep == Init /\ [][NextSweep]_vars

----------------------------------------------------------------------------
(* Properties *)

IsoDay(s) == s[1] * 10 + s[2]

Row(id) == Get(memories, id)

LinkExists(source, target, relation_type) ==
  \E i \in 1..Len(links) :
    /\ links[i].source_id = source
    /\ links[i].target_id = target
    /\ links[i].relation_type = relation_type

\* C1: a remember call with relation_type "updates" that is no longer
\* running (it returned, raised, or the process died in it) has left either
\* all of its writes or none: if its Memory row is stored, so is its Link
\* row, and its target, if stored, is no longer latest.
C1_RememberAllOrNothing ==
  (/\ pc.step \in {"returned", "raised", "crashed"}
   /\ IsUpdate(pc.relation_to, pc.relation_type)
   /\ Has(memories, pc.id))
  => /\ LinkExists(pc.id, pc.relation_to, "updates")
     /\ Has(memories, pc.relation_to) => Row(pc.relation_to).is_latest = 0

\* C2: a step remember(B, relation_to=A, relation_type="updates") with A
\* stored leaves A not latest and B latest, and the is_latest flag of every
\* other memory as it was.
C2_UpdatesFlipsOnlyTarget ==
  [][\A a \in Ids(memories) :
       Remember(Abc, NullText, 1, a, "updates", "s1", "fact")
       => /\ result'.ok
          /\ Has(memories', a) /\ Get(memories', a).is_latest = 0
          /\ Has(memories', result'.id) /\ Get(memories', result'.id).is_latest = 1
          /\ \A m \in Ids(memories) \ {a} :
               Has(memories', m) /\ Get(memories', m).is_latest = Row(m).is_latest
    ]_vars

\* C2 witness: C has just been remembered as an update of B, which extends
\* A: B is no longer latest, A and C are.
C2_Witness ==
  /\ result.op = "remember"
  /\ \E a \in Ids(memories), b \in Ids(memories) :
       /\ LinkExists(result.id, b, "updates")
       /\ LinkExists(b, a, "extends")
       /\ Row(a).is_latest = 1
       /\ Row(b).is_latest = 0
       /\ Row(result.id).is_latest = 1

\* C3: every stored memory is long-term exactly when its importance is at
\* least 5 or its access_count is at least 3.
C3_LongTermIff ==
  \A i \in 1..Len(memories) :
    (memories[i].is_long_term = 1)
      <=> (memories[i].importance >= 5 \/ memories[i].access_count >= 3)

\* C3 witness: one memory of low importance promoted by its third recall,
\* beside one recalled twice and not promoted.
C3_Witness ==
  \E i, j \in 1..Len(memories) :
    /\ memories[i].importance < 5
    /\ memories[i].access_count = 3
    /\ memories[i].is_long_term = 1
    /\ memories[j].importance < 5
    /\ memories[j].access_count = 2
    /\ memories[j].is_long_term = 0

\* C4: the access_count of every stored memory is the number of recall calls
\* that returned it.
C4_AccessCountIsReturnCount ==
  \A i \in 1..Len(memories) :
    /\ memories[i].id \in DOMAIN returned
    /\ memories[i].access_count = returned[memories[i].id]

\* C4 witness: a recall has just returned 5 records, some for the second
\* time, while a sixth memory that matched the query was never returned.
C4_Witness ==
  /\ result.op = "recall"
  /\ Len(result.rows) = 5
  /\ \E i \in 1..Len(memories) :
       /\ memories[i].access_count = 0
       /\ ColumnLike(memories[i].content, LikeQuery(Abc))
  /\ \E j \in 1..Len(memories) : memories[j].access_count = 2

\* C5: a step consolidate(ttl_days) removes exactly the memories that are not
\* long-term, were created before cutoff = now - ttl_days, and were last
\* accessed before the cutoff or are not latest; it leaves every other memory
\* as it was, and reports the number removed; and a memory that was removed
\* is absent afterwards: no later step brings it back.
C5_ConsolidateRemovesExactlyStale ==
  [][/\ \A ttl_days \in 0..MaxTtl :
          Consolidate(ttl_days)
          => LET cutoff == now - ttl_days
                 doomed(r) == /\ r.is_long_term = 0
                              /\ (IsoDay(r.last_accessed) < cutoff \/ r.is_latest = 0)
                              /\ IsoDay(r.created_at) < cutoff
             IN /\ memories' = SelectSeq(memories, LAMBDA r : ~doomed(r))
                /\ result'.count = Cardinality({i \in 1..Len(memories) : doomed(memories[i])})
                /\ result'.count = Len(memories) - Len(memories')
     /\ \A id \in IssuedIds \ Ids(memories) : id \notin Ids(memories')
    ]_vars

\* C6: a stored long-term memory is still stored, and still long-term, after
\* every step.
C6_LongTermNeverEvicted ==
  [][\A i \in 1..Len(memories) :
       memories[i].is_long_term = 1
       => /\ Has(memories', memories[i].id)
          /\ Get(memories', memories[i].id).is_long_term = 1
    ]_vars

\* C6 witness: consolidate has just removed a memory and kept a long-term
\* one that is as old as a memory can be and was never accessed.
C6_Witness ==
  /\ result.op = "consolidate"
  /\ result.count >= 1
  /\ \E i \in 1..Len(memories) :
       /\ memories[i].is_long_term = 1
       /\ memories[i].created_at = IsoFormat(MaxTtl)
       /\ memories[i].last_accessed = IsoFormat(MaxTtl)

\* The Links removed in the step are those that name one of the given
\* memories, and no Link that remains names one.
LinksFollow(evicted) ==
  /\ \A j \in 1..Len(links) :
       (\A i \in 1..Len(links') : links'[i] /= links[j])
       <=> (links[j].source_id \in evicted \/ links[j].target_id \in evicted)
  /\ evicted /= {}
     => /\ result'.op = "consolidate"
        /\ links' = SelectSeq(links, LAMBDA l : /\ l.source_id \notin evicted
                                                /\ l.target_id \notin evicted)
  /\ \A i \in 1..Len(links') :
       links'[i].source_id \notin evicted /\ links'[i].target_id \notin evicted

\* C7: in every step, the Links removed are exactly those whose source or
\* target is a memory removed in that step, no Link that remains names a
\* removed memory, and only consolidate removes memories; so no other
\* operation removes a Link.
C7_LinksRemovedOnlyByCascade ==
  [][LinksFollow(Ids(memories) \ Ids(memories'))]_vars

\* C7 witness: consolidate has just removed a memory and, with it, a Link
\* that the committed table still holds, and has kept another Link, whose
\* two ends are stored.
C7_Witness ==
  /\ result.op = "consolidate"
  /\ result.count >= 1
  /\ \E j \in 1..Len(disk.links) :
       /\ \A k \in 1..Len(links) : links[k] /= disk.links[j]
       /\ \/ disk.links[j].source_id \notin Ids(memories)
          \/ disk.links[j].target_id \notin Ids(memories)
  /\ \E k \in 1..Len(links) :
       /\ links[k].source_id \in Ids(memories)
       /\ links[k].target_id \in Ids(memories)

\* The score of the specification: 10 for a session match, 5 for a latest
\* memory, plus the importance.  A recall that passes no session_id (None or
\* the empty string) matches no memory.
SessionMatches(r, session_id) ==
  session_id \notin {None, ""} /\ r.session_id = session_id

Score(r, session_id) ==
  (IF SessionMatches(r, session_id) THEN 10 ELSE 0)
  + (IF r.is_latest = 1 THEN 5 ELSE 0) + r.importance

\* Where candidate i comes in the descending order that keeps ties in
\* candidate order.
Place(cands, i, session_id) ==
  1 + Cardinality({j \in 1..Len(cands) :
                     Score(cands[j], session_id) > Score(cands[i], session_id)})
    + Cardinality({j \in 1..(i - 1) :
                     Score(cands[j], session_id) = Score(cands[i], session_id)})

TopFiveByScore(cands, rows, session_id) ==
  /\ Len(rows) <= 5
  /\ Len(rows) = (IF Len(cands) < 5 THEN Len(cands) ELSE 5)
  /\ \A i \in 1..Len(cands) :
       Place(cands, i, session_id) <= 5
       => rows[Place(cands, i, session_id)].id = cands[i].id
  /\ \A i, j \in 1..Len(cands) :
       (/\ cands[i].importance = cands[j].importance
        /\ cands[i].is_latest = cands[j].is_latest
        /\ SessionMatches(cands[i], session_id)
        /\ ~SessionMatches(cands[j], session_id)
        /\ \E y \in 1..Len(rows) : rows[y].id = cands[j].id)
       => \E x, y \in 1..Len(rows) :
            x < y /\ rows[x].id = cands[i].id /\ rows[y].id = cands[j].id

\* C8: a step recall(query, session_id) returns the first 5 of the
\* de-duplicated candidates in descending order of score, candidates of equal
\* score in candidate order, where score = 10 for a matching session_id
\* + 5 for a latest memory + importance; among candidates of equal importance
\* and latest flag, none whose session does not match is returned unless
\* one whose session matches is returned before it.
C8_RecallReturnsTopFiveByScore ==
  [][\A session_id \in {None, "s1"} :
       Recall(Abc, session_id, MaxRankAccess)
       => TopFiveByScore(Dedupe(Candidates(memories, Abc), {}), result'.rows,
                         session_id)
    ]_vars

\* C8 witness: of six stored memories recall has just returned five and
\* not the first one stored; the first two returned have the same score, one
\* by its importance and one by its session.
C8_Witness ==
  /\ result.op = "recall"
  /\ Len(memories) = 6
  /\ Len(result.rows) = 5
  /\ \A y \in 1..5 : result.rows[y].id /= memories[1].id
  /\ result.rows[1].importance = 11
  /\ result.rows[1].session_id = None
  /\ result.rows[2].importance = 1
  /\ result.rows[2].session_id = "s1"

\* C9: a step summarize_session(s, text) adds one memory of type "summary",
\* session s, importance 5, long-term, and adds exactly one derives Link from
\* it to each stored memory of session s that is not a summary, and no other
\* Link.
C9_SummaryDerivesFromMembers ==
  [][\A s \in {"s1", "s2"} :
       SummarizeSession(s, Abc)
       => LET n == Len(memories)
              sum == memories'[n + 1]
              added == SubSeq(links', Len(links) + 1, Len(links'))
              members == {i \in 1..n : /\ memories[i].session_id = s
                                       /\ memories[i].type /= "summary"}
          IN /\ Len(memories') = n + 1
             /\ SubSeq(memories', 1, n) = memories
             /\ sum.id = result'.id
             /\ sum.id \notin Ids(memories)
             /\ sum.type = "summary"
             /\ sum.session_id = s
             /\ sum.importance = 5
             /\ sum.is_long_term = 1
             /\ Len(links') >= Len(links)
             /\ SubSeq(links', 1, Len(links)) = links
             /\ \A k \in 1..Len(added) :
                  /\ added[k].source_id = sum.id
                  /\ added[k].relation_type = "derives"
                  /\ added[k].target_id \in Ids(memories)
             /\ \A i \in 1..n :
                  Cardinality({k \in 1..Len(added) : added[k].target_id = memories[i].id})
                    = (IF i \in members THEN 1 ELSE 0)
             /\ Len(added) = Cardinality(members)
    ]_vars

\* C9 witness: a session has just been summarized a second time; the new
\* summary has a Link to a member and none to the earlier summary.
C9_Witness ==
  /\ result.op = "summarize_session"
  /\ \E k \in 1..Len(links) : links[k].source_id = result.id
  /\ \E i \in 1..Len(memories) :
       /\ memories[i].id /= result.id
       /\ memories[i].type = "summary"
       /\ memories[i].session_id = Row(result.id).session_id
       /\ ~LinkExists(result.id, memories[i].id, "derives")

\* C10: a remember call with relation_type "updates" whose relation_to names
\* no stored memory returns the new id without an error, with the Memory
\* and the Link stored.
C10_MissingTargetIsNoError ==
  (/\ result.op = "remember"
   /\ result.id /= None
   /\ \E i \in 1..Len(links) :
        /\ links[i].source_id = result.id
        /\ links[i].relation_type = "updates"
        /\ ~Has(memories, links[i].target_id))
  => /\ result.ok
     /\ Has(memories, result.id)

\* C11: a step remember(content, ...) with empty content reports a failure
\* and adds no Memory and no Link and changes no is_latest flag: it leaves
\* both tables as they were.
C11_EmptyContentRejected ==
  [][\A p \in FactProfiles, relation_to \in IssuedIds \cup {None} :
       (p[1] = <<>> /\ Remember(p[1], p[2], 1, relation_to, "updates", None, "fact"))
       => /\ ~result'.ok
          /\ memories' = memories
          /\ links' = links
    ]_vars

IdSet(rows) == {rows[i].id : i \in 1..Len(rows)}

\* C12: a recall step leaves the set of memory ids that recall returns for
\* any query and session_id as it was before the step, although it changes
\* access_count, last_accessed and is_long_term; so two recall calls with
\* the same arguments, with only recall calls between them, return the same
\* set of ids.
C12_RecallReturnsSameIds ==
  [][result'.op = "recall"
     => \A query \in {Abc, <<>>}, session_id \in {None, "s1"} :
          IdSet(Selected(memories', query, session_id))
            = IdSet(Selected(memories, query, session_id))
    ]_vars

\* C12 witness: of six stored memories, a second recall has just returned
\* the five that the first one returned, and the sixth was never returned.
C12_Witness ==
  /\ result.op = "recall"
  /\ Len(memories) = 6
  /\ Len(result.rows) = 5
  /\ \A y \in 1..5 : result.rows[y].access_count = 2
  /\ \E i \in 1..6 : memories[i].access_count = 0 /\ memories[i].is_long_term = 0

\* The whitespace-separated words of a text, case folded.
RECURSIVE Words(_, _)
Words(s, cur) ==
  IF s = <<>> THEN (IF cur = <<>> THEN {} ELSE {cur})
  ELSE IF ~IsSpaceChar(Head(s)) THEN Words(Tail(s), Append(cur, Lower(Head(s))))
  ELSE (IF cur = <<>> THEN {} ELSE {cur}) \cup Words(Tail(s), <<>>)

\* The words of a cleaned query that stage D of the specification keeps:
\* those longer than 2 characters.
LongTokens(clean) == {t \in Words(clean, <<>>) : Len(t) > 2}

\* text contains tok, case folded.
Contains(text, tok) ==
  \E i \in 1..(Len(text) - Len(tok) + 1) :
    \A k \in 1..Len(tok) : Lower(text[i + k - 1]) = tok[k]

ContainsLongToken(r, clean) ==
  \E t \in LongTokens(clean) : Contains(r.content, t)

\* C13: a step recall(query) for which the full-text stage and both
\* substring stages find no candidate, while a word of the cleaned query
\* longer than 2 characters occurs in the content of a stored memory,
\* returns at least one record, and only records whose content contains such
\* a word.
C13_LastResortTokenStage ==
  [][\A query \in Queries :
       LET clean == CleanQuery(query)
       IN (/\ Recall(query, None, MaxCascadeAccess)
           /\ FtsSearch(memories, clean) = <<>>
           /\ LikeLatest(memories, LikeQuery(clean)) = <<>>
           /\ LikeAll(memories, LikeQuery(clean)) = <<>>
           /\ \E i \in 1..Len(memories) : ContainsLongToken(memories[i], clean))
          => /\ result'.rows /= <<>>
             /\ \A y \in 1..Len(result'.rows) :
                  ContainsLongToken(result'.rows[y], clean)
    ]_vars

\* r matches the substring pattern of a cleaned query on content or citation.
MatchesSubstring(r, clean) ==
  \/ ColumnLike(r.content, LikeQuery(clean))
  \/ ColumnLike(r.citation, LikeQuery(clean))

\* C14: in a step recall(query), if the full-text stage finds candidates then
\* every returned record is one of them; if it finds none and some latest
\* memory matches the substring pattern on content or citation, then every
\* returned record is latest and matches; and a returned record that is not
\* latest matches the pattern, no latest memory doing so.
C14_StageRunsOnlyAfterEmptyStage ==
  [][\A query \in Queries :
       Recall(query, None, MaxCascadeAccess)
       => LET clean == CleanQuery(query)
              fts == FtsSearch(memories, clean)
              latestMatch == \E i \in 1..Len(memories) :
                               /\ memories[i].is_latest = 1
                               /\ MatchesSubstring(memories[i], clean)
          IN /\ fts /= <<>> => IdSet(result'.rows) \subseteq IdSet(fts)
             /\ (fts = <<>> /\ latestMatch)
                => \A y \in 1..Len(result'.rows) :
                     /\ result'.rows[y].is_latest = 1
                     /\ MatchesSubstring(result'.rows[y], clean)
             /\ \A y \in 1..Len(result'.rows) :
                  result'.rows[y].is_latest = 0
                  => ~latestMatch /\ MatchesSubstring(result'.rows[y], clean)
    ]_vars

\* C14 witness: recall has just returned a latest record and not the
\* superseded memory of the same content and citation.
C14_Witness ==
  /\ result.op = "recall"
  /\ Len(result.rows) = 1
  /\ result.rows[1].is_latest = 1
  /\ \E i \in 1..Len(memories) :
       /\ memories[i].is_latest = 0
       /\ memories[i].content = result.rows[1].content
       /\ memories[i].citation = result.rows[1].citation
       /\ memories[i].access_count = 0

\* C15: in every step, a memory stored before and after whose is_latest flag
\* changes had it true and has it false, and the step is a remember call
\* that added one Link, of type "updates", from the new memory onto that
\* memory; every other step, and remember with another relation_type or
\* without relation_to or relation_type, leaves all is_latest flags as they
\* were.
C15_LatestClearedOnlyByUpdates ==
  [][\A i \in 1..Len(memories) :
       (/\ Has(memories', memories[i].id)
        /\ Get(memories', memories[i].id).is_latest /= memories[i].is_latest)
       => /\ memories[i].is_latest = 1
          /\ Get(memories', memories[i].id).is_latest = 0
          /\ result'.op = "remember"
          /\ Len(links') = Len(links) + 1
          /\ links'[Len(links')].source_id = result'.id
          /\ links'[Len(links')].target_id = memories[i].id
          /\ links'[Len(links')].relation_type = "updates"
    ]_vars

\* C15 witness: a memory has just been remembered as extending one that
\* recall has returned and that supersedes a third; the extended one is still
\* latest, the superseded one is not.
C15_Witness ==
  /\ result.op = "remember"
  /\ \E a, b \in Ids(memories) :
       /\ LinkExists(result.id, a, "extends")
       /\ Row(a).is_latest = 1
       /\ Row(a).access_count >= 1
       /\ LinkExists(a, b, "updates")
       /\ Row(b).is_latest = 0

\* The fields of a memory that recall never writes.
Fixed(r) ==
  <<r.id, r.content, r.citation, r.metadata, r.type, r.session_id,
    r.importance, r.is_latest, r.created_at>>

\* C18: a recall step returns at most 5 records, keeps the memories table
\* row for row and the links table as they were, changes in a returned
\* memory nothing but access_count, last_accessed and is_long_term, and
\* changes nothing in a memory it does not return.
C18_RecallWritesOnlyReturned ==
  [][result'.op = "recall"
     => /\ Len(result'.rows) <= 5
        /\ links' = links
        /\ Len(memories') = Len(memories)
        /\ \A i \in 1..Len(memories) :
             /\ Fixed(memories'[i]) = Fixed(memories[i])
             /\ memories[i].id \notin IdSet(result'.rows)
                => memories'[i] = memories[i]
    ]_vars

\* C18 witness: recall has just returned 5 memories, at a later time than
\* they were created, and not a sixth that matches the query, which still
\* has its first last_accessed and was never returned.
C18_Witness ==
  /\ result.op = "recall"
  /\ Len(result.rows) = 5
  /\ \A i \in 1..Len(memories) :
       memories[i].id \in IdSet(result.rows)
       => memories[i].last_accessed /= memories[i].created_at
  /\ \E j \in 1..Len(memories) :
       /\ memories[j].id \notin IdSet(result.rows)
       /\ ColumnLike(memories[j].content, LikeQuery(Abc))
       /\ memories[j].last_accessed = memories[j].created_at
       /\ memories[j].access_count = 0

\* C19: after every step of a run of calls made one at a time, the source_id
\* of every Link is the id of a stored memory; and a Link whose target_id
\* names no stored memory either was so before the step, in the tables as
\* the server sees them or as they are committed, or was added in the step
\* by a remember call whose relation_to named no stored memory: no eviction
\* leaves a Link behind.
C19_LinkEndsStored ==
  [][/\ \A k \in 1..Len(links') : links'[k].source_id \in Ids(memories')
     /\ \A k \in 1..Len(links') :
          links'[k].target_id \notin Ids(memories')
          => \/ \E j \in 1..Len(links) :
                  links[j] = links'[k] /\ links[j].target_id \notin Ids(memories)
             \/ \E j \in 1..Len(disk.links) :
                  /\ disk.links[j] = links'[k]
                  /\ disk.links[j].target_id \notin Ids(disk.memories)
             \/ /\ k = Len(links')
                /\ Len(links') = Len(links) + 1
                /\ result'.op = "remember"
                /\ links'[k].source_id = result'.id
                /\ links'[k].target_id \notin Ids(memories)
    ]_vars

\* C19 witness: recall has just returned a memory with a Link onto a memory
\* that was evicted before the Link was made.
C19_Witness ==
  /\ result.op = "recall"
  /\ \E y \in 1..Len(result.rows) :
       /\ result.rows[y].links /= <<>>
       /\ result.rows[y].links[1].target_id \in IssuedIds \ Ids(memories)

\* C16: no step, also none of a recall whose statements interleave with
\* those of another recall, changes the is_long_term flag of a stored memory
\* from true to false.
C16_LongTermMonotonic ==
  [][\A i \in 1..Len(memories) :
       (memories[i].is_long_term = 1 /\ Has(memories', memories[i].id))
       => Get(memories', memories[i].id).is_long_term = 1
    ]_vars

\* C17: when the row a recall is about to update was deleted by consolidate
\* after the recall read it, and the deletion is committed, the update
\* changes nothing: the memories table stays as it is, without that row, and
\* the recall goes on, to the read of the row's links, without an error.
C17_UpdateOfDeletedRowIsNoOp ==
  [][\A c \in Callers :
       (/\ scan[c].step = "update"
        /\ scan[c].rows /= <<>>
        /\ ~Has(disk.memories, Head(scan[c].rows).id)
        /\ RecallUpdateStep(c))
       => /\ scan'[c].step = "links"
          /\ scan'[c].rows = scan[c].rows
          /\ memories' = memories
          /\ disk' = disk
          /\ result' = result
    ]_vars

====
